---- MODULE Spec2Model ----
(***************************************************************************)
(* MBES line-spacing calculator (src/app.py): the Streamlit script that,   *)
(* for a depth-dependent range of opening angles, computes swath width,    *)
(* ping rate and hits per grid cell, flags each angle against the minimum  *)
(* hit count, and reports the first (widest) angle that meets it.          *)
(*                                                                         *)
(* Numbers.  The script computes in Python floats.  Here every float is an *)
(* exact rational: a sign and two natural numbers of unbounded size, kept  *)
(* as little-endian sequences of base-10000 digits because TLC's integers  *)
(* are 32 bits wide.  Every arithmetic operator of the script is applied   *)
(* in the script's order; what is abstracted is the rounding error of the  *)
(* IEEE-754 operations (at most one unit in the last place each), and      *)
(* math.tan, which is a table of its values to eight decimal places.       *)
(* A division by zero yields a value with denominator zero, which stands   *)
(* for the ZeroDivisionError Python raises and poisons whatever uses it.   *)
(***************************************************************************)
EXTENDS Integers, Sequences, FiniteSets

\* ------------------------------------------------------------------------
\* Natural numbers of unbounded size: <<d1, d2, ...>> is d1 + d2*B + ...,
\* without leading zero digits; <<>> is 0.
\* ------------------------------------------------------------------------
Base == 100 * 100

RECURSIVE BigFromInt(_)
BigFromInt(n) == IF n = 0 THEN <<>> ELSE <<n % Base>> \o BigFromInt(n \div Base)

RECURSIVE BigToInt(_)
BigToInt(a) == IF a = <<>> THEN 0 ELSE Head(a) + Base * BigToInt(Tail(a))

RECURSIVE BigStrip(_)
BigStrip(a) ==
    IF a = <<>> THEN <<>>
    ELSE IF a[Len(a)] = 0 THEN BigStrip(SubSeq(a, 1, Len(a) - 1))
    ELSE a

RECURSIVE BigAddC(_, _, _)
BigAddC(a, b, c) ==
    IF a = <<>> /\ b = <<>> THEN (IF c = 0 THEN <<>> ELSE <<c>>)
    ELSE LET x  == (IF a = <<>> THEN 0 ELSE Head(a))
                 + (IF b = <<>> THEN 0 ELSE Head(b)) + c
             ta == IF a = <<>> THEN <<>> ELSE Tail(a)
             tb == IF b = <<>> THEN <<>> ELSE Tail(b)
         IN  <<x % Base>> \o BigAddC(ta, tb, x \div Base)

BigAdd(a, b) == BigAddC(a, b, 0)

\* a - b for a >= b
RECURSIVE BigSubB(_, _, _)
BigSubB(a, b, w) ==
    IF a = <<>> THEN <<>>
    ELSE LET x  == Head(a) - (IF b = <<>> THEN 0 ELSE Head(b)) - w
             tb == IF b = <<>> THEN <<>> ELSE Tail(b)
         IN  IF x < 0 THEN <<x + Base>> \o BigSubB(Tail(a), tb, 1)
             ELSE <<x>> \o BigSubB(Tail(a), tb, 0)

BigSub(a, b) == BigStrip(BigSubB(a, b, 0))

RECURSIVE BigMulSmallC(_, _, _)
BigMulSmallC(a, k, c) ==
    IF a = <<>> THEN (IF c = 0 THEN <<>> ELSE <<c>>)
    ELSE LET x == Head(a) * k + c
         IN  <<x % Base>> \o BigMulSmallC(Tail(a), k, x \div Base)

\* a * k for a digit k
BigMulSmall(a, k) == IF k = 0 THEN <<>> ELSE BigMulSmallC(a, k, 0)

BigShift(a) == IF a = <<>> THEN <<>> ELSE <<0>> \o a

RECURSIVE BigMul(_, _)
BigMul(a, b) ==
    IF a = <<>> \/ b = <<>> THEN <<>>
    ELSE BigAdd(BigMulSmall(b, Head(a)), BigShift(BigMul(Tail(a), b)))

\* -1, 0, 1 as a < b, a = b, a > b
RECURSIVE BigCmpAt(_, _, _)
BigCmpAt(a, b, i) ==
    IF i = 0 THEN 0
    ELSE IF a[i] < b[i] THEN -1
    ELSE IF a[i] > b[i] THEN 1
    ELSE BigCmpAt(a, b, i - 1)

BigCmp(a, b) ==
    IF Len(a) < Len(b) THEN -1
    ELSE IF Len(a) > Len(b) THEN 1
    ELSE BigCmpAt(a, b, Len(a))

\* the largest digit k in lo..hi with d * k <= r  (d * lo <= r is given)
RECURSIVE BigQuotDigit(_, _, _, _)
BigQuotDigit(r, d, lo, hi) ==
    IF lo = hi THEN lo
    ELSE LET mid == (lo + hi + 1) \div 2
         IN  IF BigCmp(BigMulSmall(d, mid), r) <= 0
             THEN BigQuotDigit(r, d, mid, hi)
             ELSE BigQuotDigit(r, d, lo, mid - 1)

\* long division of the digits n[1..i] (most significant first) by d > 0,
\* with quotient q and remainder r so far: <<quotient, remainder>>
RECURSIVE BigDivStep(_, _, _, _, _)
BigDivStep(n, i, d, q, r) ==
    IF i = 0 THEN <<BigStrip(q), r>>
    ELSE LET r1 == BigStrip(<<n[i]>> \o r)
             k  == IF BigCmp(r1, d) < 0 THEN 0 ELSE BigQuotDigit(r1, d, 1, Base - 1)
         IN  BigDivStep(n, i - 1, d, <<k>> \o q, BigSub(r1, BigMulSmall(d, k)))

BigDivMod(n, d) == BigDivStep(n, Len(n), d, <<>>, <<>>)

\* ------------------------------------------------------------------------
\* Python floats as exact rationals: sg is the sign (-1, 0, 1), nu / de the
\* magnitude.  de = <<>> (a zero denominator) is the result of a division by
\* zero, i.e. the ZeroDivisionError the script would raise there.
\* ------------------------------------------------------------------------
ZeroDivisionError == [sg |-> 0, nu |-> <<>>, de |-> <<>>]

IsErr(x) == x.de = <<>>

Sign(n) == IF n < 0 THEN -1 ELSE IF n = 0 THEN 0 ELSE 1

Abs(n) == IF n < 0 THEN -n ELSE n

\* the number n / d for integers n and d > 0
RFrac(n, d) == [sg |-> Sign(n), nu |-> BigFromInt(Abs(n)), de |-> BigFromInt(d)]

RInt(n) == RFrac(n, 1)

RNeg(a) == [a EXCEPT !.sg = -a.sg]

\* a * b
RMul(a, b) ==
    IF IsErr(a) \/ IsErr(b) THEN ZeroDivisionError
    ELSE [sg |-> a.sg * b.sg, nu |-> BigMul(a.nu, b.nu), de |-> BigMul(a.de, b.de)]

\* a / b: raises when b is zero
RDiv(a, b) ==
    IF IsErr(a) \/ IsErr(b) \/ b.sg = 0 THEN ZeroDivisionError
    ELSE [sg |-> a.sg * b.sg, nu |-> BigMul(a.nu, b.de), de |-> BigMul(a.de, b.nu)]

\* a + b
RAdd(a, b) ==
    IF IsErr(a) \/ IsErr(b) THEN ZeroDivisionError
    ELSE LET x == BigMul(a.nu, b.de)
             y == BigMul(b.nu, a.de)
             d == BigMul(a.de, b.de)
             c == BigCmp(x, y)
         IN  IF a.sg = 0 THEN b
             ELSE IF b.sg = 0 THEN a
             ELSE IF a.sg = b.sg THEN [sg |-> a.sg, nu |-> BigAdd(x, y), de |-> d]
             ELSE IF c = 0 THEN [sg |-> 0, nu |-> <<>>, de |-> d]
             ELSE IF c > 0 THEN [sg |-> a.sg, nu |-> BigSub(x, y), de |-> d]
             ELSE [sg |-> b.sg, nu |-> BigSub(y, x), de |-> d]

\* a - b
RSub(a, b) == RAdd(a, RNeg(b))

\* the comparisons of two numbers (neither a raised error)
RCmp(a, b) == RSub(a, b).sg

REq(a, b) == ~IsErr(a) /\ ~IsErr(b) /\ RCmp(a, b) = 0

RGe(a, b) == RCmp(a, b) >= 0

RGt(a, b) == RCmp(a, b) > 0

RLe(a, b) == RCmp(a, b) <= 0

RECURSIVE Pow10(_)
Pow10(k) == IF k = 0 THEN 1 ELSE 10 * Pow10(k - 1)

\* Python's round(x, ndigits): the nearest multiple of 10^-ndigits, a tie
\* going to the even multiple
round(x, ndigits) ==
    IF IsErr(x) THEN ZeroDivisionError
    ELSE LET p    == BigFromInt(Pow10(ndigits))
             qr   == BigDivMod(BigMul(x.nu, p), x.de)
             q    == qr[1]
             half == BigCmp(BigAdd(qr[2], qr[2]), x.de)
             odd  == q # <<>> /\ Head(q) % 2 = 1
             up   == half > 0 \/ (half = 0 /\ odd)
             m    == IF up THEN BigAdd(q, <<1>>) ELSE q
         IN  [sg |-> IF m = <<>> THEN 0 ELSE x.sg, nu |-> m, de |-> p]

\* ------------------------------------------------------------------------
\* Constants & option lists (src/app.py lines 8-13)
\* ------------------------------------------------------------------------
SOUND_SPEED == 1500

KNOT_TO_MS == RFrac(514444, 1000000)

hit_count_options == 1..10

beam_options == {512, 1024}

speed_knots_options == {2, 3, 4, 5, 6, 7, 8}

\* math.tan(math.radians(angle) / 2) for angle = 0, 5, 10, ..., 170 degrees,
\* to eight decimal places
TanHalfTable ==
    <<0, 4366094, 8748866, 13165250, 17632698,
      22169466, 26794919, 31529879, 36397023, 41421356,
      46630766, 52056705, 57735027, 63707026, 70020754,
      76732699, 83909963, 91633117, 100000000, 109130850,
      119175359, 130322537, 142814801, 156968558, 173205081,
      192098213, 214450692, 241421356, 274747742, 317159480,
      373205081, 451070850, 567128182, 759575411, 1143005230>>

tan_half(a) == RFrac(TanHalfTable[(a \div 5) + 1], 100000000)

\* ------------------------------------------------------------------------
\* Core functions (src/app.py lines 63-70)
\* ------------------------------------------------------------------------
\* a ping rate without the guard on the depth
calculate_ping_rate_unguarded(depth_m) ==
    RDiv(RInt(1), RDiv(RMul(RInt(2), depth_m), RInt(SOUND_SPEED)))

\* a ping rate from the one-way travel time
calculate_ping_rate_one_way(depth_m) ==
    IF RGt(depth_m, RInt(0))
    THEN RDiv(RInt(1), RDiv(depth_m, RInt(SOUND_SPEED)))
    ELSE RInt(1)

calculate_ping_rate(depth_m) ==
    IF RGt(depth_m, RInt(0))
    THEN RDiv(RInt(1), RDiv(RMul(RInt(2), depth_m), RInt(SOUND_SPEED)))
    ELSE RInt(1)

\* an across-track density that multiplies by the swath
density_across_inverted(n_beams_int, swath_m) ==
    IF RGt(swath_m, RInt(0)) THEN RMul(RInt(n_beams_int), swath_m) ELSE RInt(0)

density_across(n_beams_int, swath_m) ==
    IF RGt(swath_m, RInt(0)) THEN RDiv(RInt(n_beams_int), swath_m) ELSE RInt(0)

density_along(ping_rate_hz, speed_ms) ==
    IF RGt(speed_ms, RInt(0)) THEN RDiv(ping_rate_hz, speed_ms) ELSE RInt(0)

calculate_hits_per_cell(swath_m, ping_rate_hz, n_beams_int, speed_ms, cell_size_m) ==
    RMul(RMul(RMul(RMul(RFrac(325, 1000),
                        density_across(n_beams_int, swath_m)),
                   cell_size_m),
              density_along(ping_rate_hz, speed_ms)),
         cell_size_m)

\* ------------------------------------------------------------------------
\* Python's range(start, stop, step) with step < 0, and its iteration
\* ------------------------------------------------------------------------
range(start, stop, step) == [start |-> start, stop |-> stop, step |-> step]

\* a length that leaves out the last value when (start - stop) is no multiple
\* of the step
RangeLen_short(r) ==
    IF r.start > r.stop THEN (r.start - r.stop) \div (-r.step) ELSE 0

RangeLen(r) ==
    IF r.start > r.stop THEN (r.start - r.stop - 1) \div (-r.step) + 1 ELSE 0

RangeAt(r, i) == r.start + (i - 1) * r.step

\* a selection whose comparisons take the boundary depths 7 and 40 the other way
select_angle_range_inclusive(depth_m, cell_size_m) ==
    IF RLe(depth_m, RInt(7)) THEN range(140, 4, -5)
    ELSE IF RGe(depth_m, RInt(40)) /\ RLe(cell_size_m, RFrac(25, 100))
    THEN range(100, 4, -5)
    ELSE range(120, 4, -5)

\* a selection whose ranges stop at 5, so that 10 is the last angle
select_angle_range_stop5(depth_m, cell_size_m) ==
    IF ~RGe(depth_m, RInt(7)) THEN range(140, 5, -5)
    ELSE IF RGt(depth_m, RInt(40)) /\ RLe(cell_size_m, RFrac(25, 100))
    THEN range(100, 5, -5)
    ELSE range(120, 5, -5)

\* Angle range selection (src/app.py lines 76-81)
select_angle_range(depth_m, cell_size_m) ==
    IF ~RGe(depth_m, RInt(7)) THEN range(140, 4, -5)
    ELSE IF RGt(depth_m, RInt(40)) /\ RLe(cell_size_m, RFrac(25, 100))
    THEN range(100, 4, -5)
    ELSE range(120, 4, -5)

\* ------------------------------------------------------------------------
\* State: the script's module-level names.  A name the run has not bound yet
\* is <<>>, a bound one is <<value>>.
\* ------------------------------------------------------------------------
VARIABLES
    depth,            \* st.number_input "Depth (m)"
    cell_size,        \* st.number_input "Grid cell size (m)"
    overlap,          \* st.slider "Swath overlap (%)"
    hit_count_min,    \* st.select_slider "Minimum hit count per cell"
    n_beams,          \* st.select_slider "Number of beams"
    speed_knots,      \* st.select_slider "Acquisition speed (knots)"
    speed,            \* speed_knots * KNOT_TO_MS
    angle_range,      \* the range object the loop iterates
    it,               \* how many values the loop has taken from angle_range
    angle, swath, ping_rate, hits, valid, line_spacing,   \* the loop's names
    results,          \* the list of row dicts
    optimal_angle, optimal_spacing,
    shown,            \* the st.* elements written after the loop, in order
    pc,               \* "loop", "done", or "raised" (an uncaught exception)
    call, prev_call   \* calculate_hits_per_cell called on its own: this call
                      \* and the one before it (arguments and return value)

vars == <<depth, cell_size, overlap, hit_count_min, n_beams, speed_knots, speed,
          angle_range, it, angle, swath, ping_rate, hits, valid, line_spacing,
          results, optimal_angle, optimal_spacing, shown, pc, call, prev_call>>

\* ------------------------------------------------------------------------
\* The values the widgets are set to.  Depth in tenths of a metre and cell
\* size in hundredths (the widgets' steps); the first Num... samples of each
\* list are used.
\* ------------------------------------------------------------------------
DepthSamples == <<0, 69, 70, 400, 401, 4000, 200, 50>>
NumDepths == 6

CellSamples == <<25, 100, 26, 20>>
NumCells == 2

OverlapSamples == <<20, 0, 80, 50>>
NumOverlaps == 2

HitSamples == <<3, 10, 1, 5>>
NumHits == 2

SpeedSamples == <<4, 8, 2, 6>>
NumSpeeds == 2

Samples(list, num) == {list[i] : i \in 1..num}

\* what the widgets accept (src/app.py lines 18-55)
WidgetConfigs ==
    [depth10 : {d \in Samples(DepthSamples, NumDepths) : d >= 0},
     cell100 : {c \in Samples(CellSamples, NumCells) : c >= 1},
     overlap : {o \in Samples(OverlapSamples, NumOverlaps) : o \in 0..80},
     hit     : Samples(HitSamples, NumHits) \cap hit_count_options,
     beams   : beam_options,
     knots   : Samples(SpeedSamples, NumSpeeds) \cap speed_knots_options]

\* the configurations of the core's fallbacks: a depth or a speed that is
\* zero or negative, next to an ordinary one
DegenerateConfigs ==
    [depth10 : {-50, 0, 1, 200, 4000},
     cell100 : {25, 100},
     overlap : {20},
     hit     : {1, 3},
     beams   : beam_options,
     knots   : {-2, 0, 4}]

\* ------------------------------------------------------------------------
\* One run of the script
\* ------------------------------------------------------------------------
\* lines 18-81: the widgets return their values, speed is derived, results
\* is the empty list and the angle range is selected
Begin(configs) ==
    \E c \in configs :
        /\ depth = RFrac(c.depth10, 10)
        /\ cell_size = RFrac(c.cell100, 100)
        /\ overlap = c.overlap
        /\ hit_count_min = c.hit
        /\ n_beams = c.beams
        /\ speed_knots = c.knots
        /\ speed = RMul(RInt(c.knots), KNOT_TO_MS)
        /\ results = <<>>
        /\ angle_range = select_angle_range(RFrac(c.depth10, 10), RFrac(c.cell100, 100))
        /\ it = 0
        /\ angle = <<>> /\ swath = <<>> /\ ping_rate = <<>> /\ hits = <<>>
        /\ valid = <<>> /\ line_spacing = <<>>
        /\ optimal_angle = <<>> /\ optimal_spacing = <<>>
        /\ shown = <<>>
        /\ pc = "loop"

\* calculate_hits_per_cell is not called on its own in a run of the script
NoCall == call = <<>> /\ prev_call = <<>>

Init == Begin(WidgetConfigs) /\ NoCall

\* Streamlit runs the script again, from the top and with fresh names, when a
\* widget's value changes
Start(configs) ==
    \E c \in configs :
        /\ depth' = RFrac(c.depth10, 10)
        /\ cell_size' = RFrac(c.cell100, 100)
        /\ overlap' = c.overlap
        /\ hit_count_min' = c.hit
        /\ n_beams' = c.beams
        /\ speed_knots' = c.knots
        /\ speed' = RMul(RInt(c.knots), KNOT_TO_MS)
        /\ results' = <<>>
        /\ angle_range' = select_angle_range(RFrac(c.depth10, 10), RFrac(c.cell100, 100))
        /\ it' = 0
        /\ angle' = <<>> /\ swath' = <<>> /\ ping_rate' = <<>> /\ hits' = <<>>
        /\ valid' = <<>> /\ line_spacing' = <<>>
        /\ optimal_angle' = <<>> /\ optimal_spacing' = <<>>
        /\ shown' = <<>>
        /\ pc' = "loop"
        /\ UNCHANGED <<call, prev_call>>

\* the values the widgets hold now
widget_state ==
    [depth10 |-> depth.sg * BigToInt(BigMul(depth.nu, BigDivMod(<<10>>, depth.de)[1])),
     cell100 |-> BigToInt(BigMul(cell_size.nu, BigDivMod(<<100>>, cell_size.de)[1])),
     overlap |-> overlap,
     hit     |-> hit_count_min,
     beams   |-> n_beams,
     knots   |-> speed_knots]

\* the configurations that differ from w in exactly one widget
OneWidgetChanged(configs, w) ==
    {c \in configs : Cardinality({f \in DOMAIN w : c[f] # w[f]}) = 1}

Rerun ==
    /\ pc \in {"done", "raised"}
    /\ Start(OneWidgetChanged(WidgetConfigs, widget_state))

\* a swath that divides by the tangent
swath_width_divided(depth_m, a) == RDiv(RMul(RInt(2), depth_m), tan_half(a))

\* line 88: total coverage for a single pass at opening angle a
swath_width(depth_m, a) == RMul(RMul(RInt(2), depth_m), tan_half(a))

\* a spacing that adds the overlap
spacing_added(swath_m, overlap_pct) ==
    RMul(swath_m, RAdd(RInt(1), RDiv(RInt(overlap_pct), RInt(100))))

\* line 94: the spacing that leaves overlap_pct percent of the swath shared
spacing(swath_m, overlap_pct) ==
    RMul(swath_m, RSub(RInt(1), RDiv(RInt(overlap_pct), RInt(100))))

\* lines 86-102: one iteration of the main loop
LoopBody ==
    /\ pc = "loop"
    /\ it < RangeLen(angle_range)
    /\ LET a   == RangeAt(angle_range, it + 1)
           sw  == swath_width(depth, a)
           pr  == calculate_ping_rate(depth)
           h   == calculate_hits_per_cell(sw, pr, n_beams, speed, cell_size)
           v   == RGe(h, RInt(hit_count_min))
           ls  == spacing(sw, overlap)
           row == [opening_angle     |-> a,
                   line_spacing      |-> round(ls, 2),
                   total_coverage    |-> round(sw, 2),
                   hit_count         |-> round(h, 1),
                   meets_requirement |-> IF v THEN "check" ELSE "cross"]
       IN  /\ it' = it + 1
           /\ angle' = <<a>>
           /\ swath' = <<sw>>
           /\ IF IsErr(pr)
              THEN /\ pc' = "raised"
                   /\ UNCHANGED <<ping_rate, hits, valid, line_spacing, results>>
              ELSE IF IsErr(h)
              THEN /\ pc' = "raised"
                   /\ ping_rate' = <<pr>>
                   /\ UNCHANGED <<hits, valid, line_spacing, results>>
              ELSE /\ pc' = "loop"
                   /\ ping_rate' = <<pr>>
                   /\ hits' = <<h>>
                   /\ valid' = <<v>>
                   /\ line_spacing' = <<ls>>
                   /\ results' = Append(results, row)
    /\ UNCHANGED <<depth, cell_size, overlap, hit_count_min, n_beams, speed_knots,
                   speed, angle_range, optimal_angle, optimal_spacing, shown,
                   call, prev_call>>

\* a filter that keeps every row
valid_angles_unfiltered(df) == df

\* line 109: the rows of the table whose flag is the check mark
valid_angles(df) == SelectSeq(df, LAMBDA r : r.meets_requirement = "check")

\* a selection that takes the last row of the filtered table instead
iloc_last(rows) == rows[Len(rows)]

\* lines 111-112: valid_angles.iloc[0], the first row of the filtered table
iloc0(rows) == rows[1]

\* lines 107-119: the loop is over; the table is built and the outcome shown
Report ==
    /\ pc = "loop"
    /\ it = RangeLen(angle_range)
    /\ LET df == results
           va == valid_angles(df)
       IN  IF va # <<>>
           THEN /\ optimal_angle' = <<iloc0(va).opening_angle>>
                /\ optimal_spacing' = <<iloc0(va).line_spacing>>
                /\ shown' = <<"info", "success", "subheader", "dataframe">>
           ELSE /\ shown' = <<"error", "subheader", "dataframe">>
                /\ UNCHANGED <<optimal_angle, optimal_spacing>>
    /\ pc' = "done"
    /\ UNCHANGED <<depth, cell_size, overlap, hit_count_min, n_beams, speed_knots,
                   speed, angle_range, it, angle, swath, ping_rate, hits, valid,
                   line_spacing, results, call, prev_call>>

Next == LoopBody \/ Report \/ Rerun

Spec == Init /\ [][Next]_vars

\* ------------------------------------------------------------------------
\* The same run on the configurations of the fallbacks: what the core does
\* on a depth or a speed that is zero or negative.
\* ------------------------------------------------------------------------
InitDegenerate == Begin(DegenerateConfigs) /\ NoCall

RerunDegenerate ==
    /\ pc \in {"done", "raised"}
    /\ Start(OneWidgetChanged(DegenerateConfigs, widget_state))

NextDegenerate == LoopBody \/ Report \/ RerunDegenerate

SpecDegenerate == InitDegenerate /\ [][NextDegenerate]_vars

\* ------------------------------------------------------------------------
\* calculate_hits_per_cell on its own: called on arguments from small sets,
\* then called again with one argument changed.
\* ------------------------------------------------------------------------
SwathArgs == {RInt(0), RFrac(5, 10), RInt(10), RFrac(6928, 100)}

PingArgs == {RInt(0), RInt(1), RFrac(375, 10)}

BeamArgs == {0, 512, 1024}

SpeedArgs == {RInt(0), RMul(RInt(2), KNOT_TO_MS), RMul(RInt(4), KNOT_TO_MS)}

CellArgs == {RInt(0), RFrac(25, 100), RInt(1)}

HitsCall(sw, pr, n, sp, cs) ==
    [swath_m |-> sw, ping_rate_hz |-> pr, n_beams_int |-> n, speed_ms |-> sp,
     cell_size_m |-> cs, return |-> calculate_hits_per_cell(sw, pr, n, sp, cs)]

\* the widgets' default values (the value= arguments, src/app.py lines 18-55)
DefaultConfig ==
    [depth10 |-> 200, cell100 |-> 100, overlap |-> 20, hit |-> 3, beams |-> 1024,
     knots |-> 4]

InitHits ==
    /\ Begin({DefaultConfig})
    /\ prev_call = <<>>
    /\ \E sw \in SwathArgs, pr \in PingArgs, n \in BeamArgs, sp \in SpeedArgs,
          cs \in CellArgs : call = <<HitsCall(sw, pr, n, sp, cs)>>

Recall(c) ==
    /\ prev_call' = call
    /\ call' = <<c>>
    /\ UNCHANGED <<depth, cell_size, overlap, hit_count_min, n_beams, speed_knots,
                   speed, angle_range, it, angle, swath, ping_rate, hits, valid,
                   line_spacing, results, optimal_angle, optimal_spacing, shown, pc>>

ChangeSwath ==
    \E x \in SwathArgs \ {call[1].swath_m} :
        Recall(HitsCall(x, call[1].ping_rate_hz, call[1].n_beams_int,
                        call[1].speed_ms, call[1].cell_size_m))

ChangePing ==
    \E x \in PingArgs \ {call[1].ping_rate_hz} :
        Recall(HitsCall(call[1].swath_m, x, call[1].n_beams_int,
                        call[1].speed_ms, call[1].cell_size_m))

ChangeBeams ==
    \E x \in BeamArgs \ {call[1].n_beams_int} :
        Recall(HitsCall(call[1].swath_m, call[1].ping_rate_hz, x,
                        call[1].speed_ms, call[1].cell_size_m))

ChangeSpeed ==
    \E x \in SpeedArgs \ {call[1].speed_ms} :
        Recall(HitsCall(call[1].swath_m, call[1].ping_rate_hz, call[1].n_beams_int,
                        x, call[1].cell_size_m))

ChangeCell ==
    \E x \in CellArgs \ {call[1].cell_size_m} :
        Recall(HitsCall(call[1].swath_m, call[1].ping_rate_hz, call[1].n_beams_int,
                        call[1].speed_ms, x))

NextHits == ChangeSwath \/ ChangePing \/ ChangeBeams \/ ChangeSpeed \/ ChangeCell

SpecHits == InitHits /\ [][NextHits]_vars

\* ------------------------------------------------------------------------
\* Properties
\* ------------------------------------------------------------------------
\* the indices of the rows that meet the requirement
MeetRows == {i \in 1..Len(results) : results[i].meets_requirement = "check"}

FirstMeetRow == CHOOSE i \in MeetRows : \A j \in MeetRows : i <= j

\* C1: when the run is over and at least one row meets the requirement, the
\* optimal angle shown is the angle of the first such row in iteration order,
\* and no row that meets the requirement has a larger opening angle.
C1_OptimalIsFirstAndWidest ==
    (pc = "done" /\ MeetRows # {}) =>
        /\ optimal_angle = <<results[FirstMeetRow].opening_angle>>
        /\ \A i \in MeetRows : results[i].opening_angle <= optimal_angle[1]

\* C1 witness: a finished run whose widest angles fail and whose optimum is
\* therefore a later row of the table.
C1_Witness ==
    /\ pc = "done"
    /\ MeetRows # {}
    /\ 1 \notin MeetRows
    /\ Cardinality(MeetRows) > 1
    /\ optimal_angle # <<>>

\* C2: a finished run shows the "no angle" error exactly when no row meets
\* the requirement; it then reports no optimal angle and no optimal spacing;
\* and an optimum is never reported unless some row meets the requirement.
C2_NoValidAngleOutcome ==
    /\ pc = "done" =>
          /\ (shown[1] = "error") <=> (MeetRows = {})
          /\ (shown[1] = "info") <=> (MeetRows # {})
          /\ MeetRows = {} =>
                /\ optimal_angle = <<>> /\ optimal_spacing = <<>>
                /\ \A k \in 1..Len(shown) : shown[k] \notin {"info", "success"}
          /\ MeetRows # {} => optimal_angle # <<>> /\ optimal_spacing # <<>>
    /\ (optimal_angle # <<>> \/ optimal_spacing # <<>>) => MeetRows # {}

\* C2 witness: a finished run at a positive depth in which every row of the
\* table fails, and which shows the error.
C2_Witness ==
    /\ pc = "done"
    /\ depth.sg = 1
    /\ Len(results) > 0
    /\ MeetRows = {}
    /\ shown[1] = "error"

\* the first angle the spec gives for a depth in tenths of a metre and a
\* cell size in hundredths
ExpectedStart(d10, c100) ==
    IF d10 < 70 THEN 140
    ELSE IF d10 > 400 /\ c100 <= 25 THEN 100
    ELSE 120

\* C3: the first candidate angle is 140 when depth < 7, 100 when depth > 40
\* and cell size <= 0.25, and 120 otherwise, whatever the other inputs are;
\* consecutive candidates differ by -5.
C3_FirstAngleAndStep ==
    /\ angle_range.start = ExpectedStart(widget_state.depth10, widget_state.cell100)
    /\ angle_range.step = -5
    /\ results # <<>> => results[1].opening_angle = angle_range.start
    /\ \A i \in 1..(Len(results) - 1) :
          results[i + 1].opening_angle - results[i].opening_angle = -5

\* C3 witness: a table built at the boundary depth 40 with a fine cell, which
\* starts at 120 and not at 100.
C3_Witness ==
    /\ widget_state.depth10 = 400
    /\ widget_state.cell100 = 25
    /\ Len(results) > 1
    /\ results[1].opening_angle = 120

\* C4 as claimed: the last angle of a finished table is 10 and no row has
\* the opening angle 5.
C4_LastAngleIs10 ==
    pc = "done" =>
        /\ results[Len(results)].opening_angle = 10
        /\ \A i \in 1..Len(results) : results[i].opening_angle # 5

\* C4 amended: in each of the three branches the last angle of a finished
\* table is 5 (range(start, 4, -5) stops before 4, not before 5); the row
\* before it has the angle 10 and no row has an angle below 5.
C4_LastAngleIs5 ==
    pc = "done" =>
        /\ results[Len(results)].opening_angle = 5
        /\ results[Len(results) - 1].opening_angle = 10
        /\ \A i \in 1..Len(results) : results[i].opening_angle >= 5

\* C4 witness: a finished table whose last row is the angle 5, and that row
\* is the reported optimum.
C4_Witness ==
    /\ pc = "done"
    /\ results[Len(results)].opening_angle = 5
    /\ optimal_angle = <<5>>

\* C5: in a run whose depth is <= 0 or whose speed is <= 0 nothing raises:
\* the ping rate of a depth <= 0 is 1, the density term of a swath <= 0 or
\* of a speed <= 0 is 0, the hits of every iteration and of every row are 0,
\* every row's flag is the cross, and the finished run shows the "no angle"
\* error and no optimum.
C5_DegenerateInputsFallBack ==
    (RLe(depth, RInt(0)) \/ RLe(speed, RInt(0))) =>
        /\ pc # "raised"
        /\ Len(results) = it
        /\ (ping_rate # <<>> /\ RLe(depth, RInt(0))) => ping_rate[1] = RInt(1)
        /\ (swath # <<>> /\ RLe(depth, RInt(0))) =>
              /\ RLe(swath[1], RInt(0))
              /\ density_across(n_beams, swath[1]) = RInt(0)
        /\ (ping_rate # <<>> /\ RLe(speed, RInt(0))) =>
              density_along(ping_rate[1], speed) = RInt(0)
        /\ hits # <<>> => (~IsErr(hits[1]) /\ hits[1].sg = 0 /\ valid = <<FALSE>>)
        /\ \A i \in 1..Len(results) :
              /\ results[i].hit_count = RFrac(0, 10)
              /\ results[i].meets_requirement = "cross"
        /\ pc = "done" =>
              /\ Len(results) = RangeLen(angle_range)
              /\ shown[1] = "error"
              /\ optimal_angle = <<>> /\ optimal_spacing = <<>>

\* C5 witness: the run at depth 0, which the depth widget permits, finished
\* with its 28 rows and the error shown.
C5_Witness ==
    /\ pc = "done"
    /\ depth.sg = 0
    /\ speed.sg = 1
    /\ Len(results) = 28
    /\ ping_rate = <<RInt(1)>>
    /\ shown[1] = "error"

\* the exact line spacing at the angle of row i: swath x (1 - overlap/100),
\* computed from depth and overlap
ExactSpacing(i) ==
    RMul(RMul(RMul(RInt(2), depth), tan_half(results[i].opening_angle)),
         RFrac(100 - overlap, 100))

OptimalRow == CHOOSE i \in 1..Len(results) : results[i].opening_angle = optimal_angle[1]

\* C6 as claimed: the optimal spacing reported is swath x (1 - overlap/100)
\* at the optimal angle, and no row that meets the requirement has a larger
\* line spacing.
C6_SpacingIsExactProduct ==
    (pc = "done" /\ optimal_spacing # <<>> /\ depth.sg = 1) =>
        /\ optimal_spacing[1] = results[OptimalRow].line_spacing
        /\ REq(optimal_spacing[1], ExactSpacing(OptimalRow))
        /\ \A i \in MeetRows : RLe(results[i].line_spacing, optimal_spacing[1])

\* C6 amended: the optimal spacing reported is the line spacing of the row
\* of the optimal angle, which is swath x (1 - overlap/100) at that angle
\* rounded to 2 decimal places, and no row that meets the requirement has a
\* larger line spacing (rounded or exact).
C6_SpacingIsRoundedProduct ==
    (pc = "done" /\ optimal_spacing # <<>> /\ depth.sg = 1) =>
        /\ optimal_spacing[1] = results[OptimalRow].line_spacing
        /\ REq(optimal_spacing[1], round(ExactSpacing(OptimalRow), 2))
        /\ \A i \in MeetRows :
              /\ RLe(results[i].line_spacing, optimal_spacing[1])
              /\ RLe(ExactSpacing(i), ExactSpacing(OptimalRow))

\* C6 witness: a finished run with a positive overlap whose optimum is not the
\* first row, whose exact spacing is not a multiple of 0.01, and in which
\* several rows meet the requirement.
C6_Witness ==
    /\ pc = "done"
    /\ optimal_spacing # <<>>
    /\ depth.sg = 1
    /\ overlap > 0
    /\ OptimalRow > 1
    /\ Cardinality(MeetRows) > 1
    /\ ~REq(optimal_spacing[1], ExactSpacing(OptimalRow))

\* the calls p and c have the same arguments, but for the one named f
SameBut(p, c, f) == [p EXCEPT ![f] = c[f], !.return = c.return] = c

\* C7: between two calls of calculate_hits_per_cell that differ in one
\* argument, both with swath > 0 and speed > 0 and no negative argument, the
\* return value does not decrease when the beam count or the cell size goes
\* up, and does not increase when the swath or the speed goes up.
C7_HitsMonotone ==
    (prev_call # <<>>) =>
        LET p == prev_call[1]
            c == call[1]
        IN  (/\ RGt(p.swath_m, RInt(0)) /\ RGt(c.swath_m, RInt(0))
             /\ RGt(p.speed_ms, RInt(0)) /\ RGt(c.speed_ms, RInt(0))
             /\ p.n_beams_int >= 0 /\ c.n_beams_int >= 0
             /\ RGe(p.cell_size_m, RInt(0)) /\ RGe(c.cell_size_m, RInt(0))
             /\ RGe(p.ping_rate_hz, RInt(0)) /\ RGe(c.ping_rate_hz, RInt(0))) =>
                /\ p.n_beams_int <= c.n_beams_int /\ SameBut(p, c, "n_beams_int")
                      => RLe(p.return, c.return)
                /\ RLe(p.cell_size_m, c.cell_size_m) /\ SameBut(p, c, "cell_size_m")
                      => RLe(p.return, c.return)
                /\ RLe(p.swath_m, c.swath_m) /\ SameBut(p, c, "swath_m")
                      => RGe(p.return, c.return)
                /\ RLe(p.speed_ms, c.speed_ms) /\ SameBut(p, c, "speed_ms")
                      => RGe(p.return, c.return)

\* C7 witness: two calls that differ only in the swath, both positive, the
\* wider swath returning strictly fewer hits.
C7_Witness ==
    /\ prev_call # <<>>
    /\ RGt(prev_call[1].swath_m, RInt(0))
    /\ RGt(call[1].swath_m, prev_call[1].swath_m)
    /\ RGt(call[1].speed_ms, RInt(0))
    /\ RGt(prev_call[1].return, call[1].return)

\* C8: the ping rate of an iteration is 1500 / (2 x depth) when depth > 0 and
\* exactly 1 when depth <= 0, and computing it never divides by zero.
C8_PingRate ==
    /\ pc # "raised"
    /\ ping_rate # <<>> =>
          /\ ~IsErr(ping_rate[1])
          /\ IF depth.sg = 1
             THEN REq(ping_rate[1], RDiv(RInt(1500), RMul(RInt(2), depth)))
             ELSE ping_rate[1] = RInt(1)

\* C8 witness: an iteration at the depth 0.1 m, whose ping rate is 7500.
C8_Witness ==
    /\ ping_rate # <<>>
    /\ depth = RFrac(1, 10)
    /\ REq(ping_rate[1], RInt(7500))

\* the candidate angles of a range: from its start down in steps of 5 while
\* above its stop
Candidates(r) == {a \in 1..180 : a <= r.start /\ a > r.stop /\ (r.start - a) % 5 = 0}

\* C9, the state part: at most 30 iterations, never more than the range
\* holds; a run that is not over can take a step (the loop's guard or the
\* report's holds); the table holds one row per angle visited so far, each 5 below the
\* one before; a finished table holds exactly the candidate angles of the
\* selected range.
C9_SweepInv ==
    /\ it <= 30
    /\ it <= Cardinality(Candidates(angle_range))
    /\ pc # "raised"
    /\ pc = "loop" => (it < RangeLen(angle_range) \/ it = RangeLen(angle_range))
    /\ Len(results) = it
    /\ results # <<>> => results[1].opening_angle = angle_range.start
    /\ \A i \in 1..(Len(results) - 1) :
          results[i + 1].opening_angle = results[i].opening_angle - 5
    /\ \A i \in 1..Len(results) : results[i].opening_angle \in Candidates(angle_range)
    /\ angle # <<>> => angle[1] = results[Len(results)].opening_angle
    /\ pc = "done" =>
          /\ {results[i].opening_angle : i \in 1..Len(results)} = Candidates(angle_range)
          /\ Len(results) = Cardinality(Candidates(angle_range))

\* C9, the step part: a step of a run that is not over either takes the next
\* candidate angle and appends its row, or, all candidates taken, ends the
\* run with the table as it is.
C9_Progress ==
    pc = "loop" =>
        \/ /\ it < Cardinality(Candidates(angle_range))
           /\ it' = it + 1
           /\ pc' = "loop"
           /\ angle_range' = angle_range
           /\ SubSeq(results', 1, Len(results)) = results
           /\ Len(results') = Len(results) + 1
        \/ /\ it = Cardinality(Candidates(angle_range))
           /\ pc' = "done"
           /\ results' = results

\* C9: every evaluation ends after at most 30 loop iterations (each step of a
\* run consumes one of at most 30 candidates or ends the run), the table
\* growing by one row per candidate angle in strictly descending order, and
\* ends holding exactly the candidate angles of the selected range.
C9_SweepTerminates == []C9_SweepInv /\ [][C9_Progress]_vars

\* C9 witness: a finished sweep of the widest range, 28 rows from 140 to 5.
C9_Witness ==
    /\ pc = "done"
    /\ Len(results) = 28
    /\ results[1].opening_angle = 140
    /\ results[28].opening_angle = 5

\* C10: at a depth > 0, once a row meets the requirement every later row of
\* the table (a narrower angle) meets it too.
C10_MeetsIsSuffix ==
    depth.sg = 1 =>
        \A i \in 1..Len(results) : \A j \in i..Len(results) :
            results[i].meets_requirement = "check" => results[j].meets_requirement = "check"

\* C10 witness: a finished table at a depth > 0 with a failing row directly
\* followed by a row that meets the requirement.
C10_Witness ==
    /\ pc = "done"
    /\ depth.sg = 1
    /\ \E i \in 1..(Len(results) - 1) :
          /\ results[i].meets_requirement = "cross"
          /\ results[i + 1].meets_requirement = "check"

====
